---- MODULE Spec2Model ----
(***************************************************************************)
(* Bellweaver: the Compass ingestion pipeline.                             *)
(*                                                                         *)
(*   - the ledger (Batch / ApiPayload / Event tables) with the two CLI     *)
(*     commands that write it: `compass sync` and `compass process`, and   *)
(*     the ORM session's store and delete;                                 *)
(*   - the Compass clients (HTTP, mock, Playwright fetcher, pyppeteer      *)
(*     browser client) and their login / fetch contracts.                  *)
(*                                                                         *)
(* Spec         : the ledger under sync, process and direct ORM stores.    *)
(* DeleteSpec   : the same ledger when batches are also deleted.           *)
(* ClientSpec   : the four client implementations under login and fetch.   *)
(* WaitSpec     : the challenge wait of the two browser logins.            *)
(* FunctionSpec : the pure functions (parser, fingerprint, form fields,    *)
(*                location) applied to bounded inputs.                     *)
(***************************************************************************)
EXTENDS Integers, Sequences, FiniteSets, TLC

VARIABLES
    batches,        \* rows of table batches
    api_payloads,   \* rows of table api_payloads
    events,         \* rows of table events
    now,            \* the wall clock read by datetime.now(timezone.utc)
    last,           \* outcome of the last CLI command / ORM store
    deleted,        \* the rows an ORM delete removed: table and primary key
    http,           \* CompassClient (requests based)
    mock,           \* CompassMockClient
    fetcher,        \* BrowserFetcher (Playwright)
    browser,        \* CompassBrowserClient (pyppeteer)
    call,           \* outcome of the last client call
    login_wait,     \* the challenge wait of a browser login in progress
    applied         \* a pure function of the library, its input and result

dbVars     == <<batches, api_payloads, events, now, last, deleted>>
clientVars == <<http, mock, fetcher, browser, call>>
stepVars   == <<login_wait, applied>>
vars       == <<batches, api_payloads, events, now, last, deleted,
                http, mock, fetcher, browser, call, login_wait, applied>>

----------------------------------------------------------------------------
(* Bounds of the model.                                                    *)

MaxTime == 1
MaxBatches == 2
MaxFeed == 2

----------------------------------------------------------------------------
(* Raw JSON objects.  A raw object is the set of keys it carries plus the  *)
(* value of each key; the value slot of a key that is not carried is       *)
(* never read.                                                             *)

NullStr == "<null>"

\* keys the CompassEvent schema requires besides the ones modelled one by one
OtherRequired == "<otherRequired>"

RequiredEventKeys ==
    {"activityId", "allDay", "description", "finish", "guid", "instanceId",
     "runningStatus", "start", "title", OtherRequired}

BaseEvent ==
    [keys          |-> RequiredEventKeys \cup {"location", "locations"},
     instanceId    |-> "inst-1",
     activityId    |-> 1,
     start         |-> "2025-12-15T09:00:00+11:00",
     finish        |-> "2025-12-15T15:00:00+11:00",
     guid          |-> "guid-1",
     title         |-> "Excursion",
     description   |-> "",
     allDay        |-> FALSE,
     location      |-> NullStr,
     locations     |-> <<"Gym">>,
     runningStatus |-> 0]

SecondEvent ==
    [BaseEvent EXCEPT !.instanceId = "inst-2", !.activityId = 2,
                      !.guid = "guid-2", !.title = "Assembly",
                      !.start = "2025-12-20T18:00:00",
                      !.finish = "2025-12-20T19:00:00",
                      !.description = "Evening performance",
                      !.location = "Room 5", !.allDay = TRUE,
                      !.runningStatus = 1]

UnknownStatusEvent ==
    [BaseEvent EXCEPT !.instanceId = "inst-3", !.activityId = 3,
                      !.guid = "guid-3", !.title = "Free Dress Day",
                      !.keys = RequiredEventKeys, !.locations = <<>>,
                      !.runningStatus = 999]

\* {"invalid": "data", "missing": "required_fields"}
InvalidEvent ==
    [BaseEvent EXCEPT !.keys = {"invalid", "missing"}]

\* required keys all there, but start is not a datetime
BadDateEvent ==
    [BaseEvent EXCEPT !.instanceId = "inst-4", !.start = "next tuesday"]

UserBlob ==
    [BaseEvent EXCEPT !.keys = {"userId", "userFullName"}]

\* what the portal serves in the ledger runs
EventItems == {BaseEvent, SecondEvent, InvalidEvent}

Has(raw, key) == key \in raw.keys

----------------------------------------------------------------------------
(* RawResponseParser and the CompassEvent schema.                          *)

\* pydantic's datetime parsing of the upstream's ISO-like strings, with or
\* without a UTC offset; anything else is a validation error
ParseDateTime(s) ==
    CASE s = "2025-12-15T09:00:00+11:00" ->
             [ok |-> TRUE, date |-> "2025-12-15", minute |-> 540, tz |-> "+11:00"]
      [] s = "2025-12-15T15:00:00+11:00" ->
             [ok |-> TRUE, date |-> "2025-12-15", minute |-> 900, tz |-> "+11:00"]
      [] s = "2025-12-20T18:00:00" ->
             [ok |-> TRUE, date |-> "2025-12-20", minute |-> 1080, tz |-> "naive"]
      [] s = "2025-12-20T19:00:00" ->
             [ok |-> TRUE, date |-> "2025-12-20", minute |-> 1140, tz |-> "naive"]
      [] OTHER ->
             [ok |-> FALSE, date |-> "", minute |-> 0, tz |-> "naive"]

\* CompassEvent.model_validate: every required field present and well typed
ValidEvent(raw) ==
    /\ RequiredEventKeys \subseteq raw.keys
    /\ ParseDateTime(raw.start).ok
    /\ ParseDateTime(raw.finish).ok
    /\ raw.description # NullStr
    /\ raw.title # NullStr

\* the validated CompassEvent (aliases renamed, optional fields defaulted)
CompassEvent(raw) ==
    [title          |-> raw.title,
     start          |-> ParseDateTime(raw.start),
     finish         |-> ParseDateTime(raw.finish),
     description    |-> raw.description,
     location       |-> IF Has(raw, "location") THEN raw.location ELSE NullStr,
     locations      |-> IF Has(raw, "locations") THEN raw.locations ELSE <<>>,
     all_day        |-> raw.allDay,
     running_status |-> raw.runningStatus]

\* A parser that rejects every object (variant for C5)
ParseRejectAll(raw) == [ok |-> FALSE, value |-> CompassEvent(BaseEvent)]

\* CompassParser.parse on a single dict: the model, or CompassParseError
Parse(raw) ==
    IF ValidEvent(raw)
    THEN [ok |-> TRUE, value |-> CompassEvent(raw)]
    ELSE [ok |-> FALSE, value |-> CompassEvent(BaseEvent)]

----------------------------------------------------------------------------
(* Normalizer: compass_event_to_event.                                     *)

StatusMap(code) ==
    CASE code = 0 -> "EventScheduled"
      [] code = 1 -> "EventCancelled"
      [] code = 2 -> "EventPostponed"
      [] OTHER    -> NullStr

ResolveLocation(ce) ==
    IF (ce.location = NullStr \/ ce.location = "") /\ Len(ce.locations) > 0
    THEN ce.locations[1]
    ELSE ce.location

\* A DateTime column of SQLite keeps the wall-clock fields and drops tzinfo
StoredDateTime(dt) == [date |-> dt.date, minute |-> dt.minute]

compass_event_to_event(ce) ==
    [title       |-> ce.title,
     start       |-> StoredDateTime(ce.start),
     end         |-> StoredDateTime(ce.finish),
     description |-> ce.description,
     location    |-> ResolveLocation(ce),
     all_day     |-> ce.all_day,
     organizer   |-> NullStr,
     attendees   |-> <<>>,
     status      |-> StatusMap(ce.running_status)]

DerivedFields ==
    {"title", "start", "end", "description", "location", "all_day",
     "organizer", "attendees", "status"}

Derived(e) == [f \in DerivedFields |-> e[f]]

----------------------------------------------------------------------------
(* The ledger tables and their constraints.                                *)

\* str(activityId) inside the f-string of the fingerprint
ToStr(n) ==
    CASE n = 1 -> "1" [] n = 2 -> "2" [] n = 3 -> "3" [] OTHER -> "n"

\* A string as the sequence of its parts between colons, so that joining
\* strings with ":" is the concatenation of their parts
Segments(s) ==
    CASE s = "2025-12-15T09:00:00+11:00" -> <<"2025-12-15T09", "00", "00+11", "00">>
      [] s = "2025-12-15T15:00:00+11:00" -> <<"2025-12-15T15", "00", "00+11", "00">>
      [] s = "2025-12-20T18:00:00" -> <<"2025-12-20T18", "00", "00">>
      [] s = "2025-12-20T19:00:00" -> <<"2025-12-20T19", "00", "00">>
      [] s = "2025-12-20T18:00" -> <<"2025-12-20T18", "00">>
      [] s = "00:guid-2" -> <<"00", "guid-2">>
      [] OTHER -> <<s>>

\* f"{activity_id}:{start}:{guid}" with payload.get(key, "") for each field
HashInput(raw) ==
    Segments(IF Has(raw, "activityId") THEN ToStr(raw.activityId) ELSE "")
      \o Segments(IF Has(raw, "start") THEN raw.start ELSE "")
      \o Segments(IF Has(raw, "guid") THEN raw.guid ELSE "")

NoExternalId == [natural |-> NullStr, digest |-> <<>>]

\* A fingerprint taken whatever the item carries (variant for C26)
generate_external_id_hashing(raw) == [natural |-> "", digest |-> HashInput(raw)]

\* ApiPayload.generate_external_id for adapter "compass": the instance id when
\* there is one, else the truncated sha256 of "activityId:start:guid" (the
\* digest is kept as the text that is hashed: sha256 is taken to be free of
\* collisions on these texts)
generate_external_id(raw) ==
    IF Has(raw, "instanceId") /\ raw.instanceId # NullStr /\ raw.instanceId # ""
    THEN [natural |-> raw.instanceId, digest |-> <<>>]
    ELSE [natural |-> "", digest |-> HashInput(raw)]

BatchRow(id, method) ==
    [id |-> id, adapter_id |-> "compass", method_name |-> method,
     created_at |-> now]

ApiPayloadRow(id, method, batch_id, external_id, raw) ==
    [id |-> id, adapter_id |-> "compass", method_name |-> method,
     batch_id |-> batch_id, external_id |-> external_id, payload |-> raw,
     created_at |-> now, updated_at |-> now]

PayloadKey(r) == <<r.adapter_id, r.method_name, r.external_id>>

\* external_id is NOT NULL and (adapter_id, method_name, external_id) is UNIQUE
IntegrityError(table, new) ==
    \/ \E r \in new : r.external_id = NoExternalId
    \/ \E r \in new, s \in table : PayloadKey(r) = PayloadKey(s)
    \/ \E r1, r2 \in new : r1 # r2 /\ PayloadKey(r1) = PayloadKey(r2)

\* db.add(...) of the rows followed by db.commit(): all rows or none
CommitPayloads(table, new) ==
    IF IntegrityError(table, new)
    THEN [ok |-> FALSE, rows |-> table]
    ELSE [ok |-> TRUE, rows |-> table \cup new]

----------------------------------------------------------------------------
(* The ledger's commands.                                                  *)

\* position of an item in the order the portal lists them
ItemRank(raw) ==
    CASE raw = BaseEvent -> 1 [] raw = SecondEvent -> 2 [] OTHER -> 3

\* The calendar responses: up to MaxFeed items, an item possibly repeated,
\* in the portal's order (rows get uuid keys, so the order of a response
\* leaves no trace in the ledger)
Feeds ==
    {feed \in UNION {[1..n -> EventItems] : n \in 0..MaxFeed} :
        \A i \in 1..(Len(feed) - 1) : ItemRank(feed[i]) <= ItemRank(feed[i + 1])}

\* the raw items of a calendar response
Items(feed) == {feed[i] : i \in 1..Len(feed)}

\* a fresh primary key (uuid4): one no row of the ledger carries
UsedIds == {r.id : r \in batches} \cup {r.id : r \in api_payloads}
               \cup {r.id : r \in events} \cup {r.id : r \in deleted}

nextId == 1 + Cardinality(UsedIds)

\* the batches the ledger has held so far, deleted ones included
BatchesEver ==
    Cardinality(batches) + Cardinality({r \in deleted : r.table = "batches"})

\* compass.py sync: ApiPayload(adapter_id, method_name, batch_id, payload) -
\* no external_id is passed, so the column is left NULL
SyncPayloadRow(id, method, batch_id, raw) ==
    ApiPayloadRow(id, method, batch_id, NoExternalId, raw)

\* `compass sync`, start to exit; last.upstream records the calendar items the
\* portal held for a run that met no outside failure, last.failure the
\* outside failure the run was exposed to.
\* The run: env check, db session, client (a requests.Session), login, user
\* batch, user fetch, user payload store, events batch, events fetch, events
\* store, client.close(); db.close() in the finally block.
\* Every exception leaves through `except Exception: raise typer.Exit(1)`;
\* batches committed before the failure stay, and client.close() is not
\* reached.
SyncOutcome(envOk, loginOk, userOk, eventsOk, feed) ==
    LET userBatch   == BatchRow(nextId, "get_user_details")
        userRow     == SyncPayloadRow(nextId + 1, "get_user_details",
                                      userBatch.id, UserBlob)
        storeUser   == CommitPayloads(api_payloads, {userRow})
        eventsBatch == BatchRow(nextId + 2, "get_calendar_events")
        eventRows   == {SyncPayloadRow(nextId + 2 + i, "get_calendar_events",
                                       eventsBatch.id, feed[i]) : i \in 1..Len(feed)}
        storeEvents == CommitPayloads(storeUser.rows, eventRows)
    IN  IF ~envOk
        THEN [exit |-> 1, batches |-> batches, payloads |-> api_payloads,
              db |-> "none", session |-> "none"]
        ELSE IF ~loginOk
        THEN [exit |-> 1, batches |-> batches, payloads |-> api_payloads,
              db |-> "closed", session |-> "open"]
        ELSE IF ~userOk \/ ~storeUser.ok
        THEN [exit |-> 1, batches |-> batches \cup {userBatch},
              payloads |-> api_payloads,
              db |-> "closed", session |-> "open"]
        ELSE IF ~eventsOk \/ ~storeEvents.ok
        THEN [exit |-> 1, batches |-> batches \cup {userBatch, eventsBatch},
              payloads |-> storeUser.rows,
              db |-> "closed", session |-> "open"]
        ELSE [exit |-> 0, batches |-> batches \cup {userBatch, eventsBatch},
              payloads |-> storeEvents.rows,
              db |-> "closed", session |-> "closed"]

\* what can go wrong outside the ledger during one run: a missing
\* environment variable, a failed login, a failed user or calendar fetch
SyncFailures == {"none", "env", "login", "user", "events"}

\* the calendar response matters only to a run that gets one
ServedFeeds(failure) == IF failure = "none" THEN Feeds ELSE {<<>>}

Sync ==
    /\ BatchesEver < MaxBatches
    /\ \E failure \in SyncFailures : \E feed \in ServedFeeds(failure) :
         LET envOk    == failure # "env"
             loginOk  == failure # "login"
             userOk   == failure # "user"
             eventsOk == failure # "events"
             out      == SyncOutcome(envOk, loginOk, userOk, eventsOk, feed)
         IN  /\ batches' = out.batches
             /\ api_payloads' = out.payloads
             /\ last' = [cmd |-> "sync",
                         exit |-> out.exit, created |-> 0, updated |-> 0,
                         errors |-> 0, batch |-> 0,
                         upstream |-> Items(feed), failure |-> failure,
                         db |-> out.db, session |-> out.session]
    /\ UNCHANGED <<events, now, deleted, clientVars, stepVars>>

\* A batch and its payload rows written straight through the ORM with the
\* external ids filled in: db.add(batch); commit; db.add_all(rows); commit
StoreBatch ==
    /\ BatchesEver < MaxBatches
    /\ \E feed \in Feeds :
         LET batch == BatchRow(nextId, "get_calendar_events")
             rows  == {ApiPayloadRow(nextId + i, "get_calendar_events", batch.id,
                                     generate_external_id(feed[i]), feed[i])
                         : i \in 1..Len(feed)}
             store == CommitPayloads(api_payloads, rows)
         IN  /\ batches' = batches \cup {batch}
             /\ api_payloads' = store.rows
             /\ last' = [cmd |-> "store",
                         exit |-> IF store.ok THEN 0 ELSE 1,
                         created |-> 0, updated |-> 0, errors |-> 0,
                         batch |-> batch.id, upstream |-> {},
                         db |-> "closed", session |-> "none", failure |-> "none"]
    /\ UNCHANGED <<events, now, deleted, clientVars, stepVars>>

\* order_by(Batch.created_at.desc()).first() over the calendar batches
CalendarBatches ==
    {b \in batches : b.adapter_id = "compass" /\ b.method_name = "get_calendar_events"}

\* A selection that takes any calendar batch (variant for C27)
AnyCalendarBatch == CalendarBatches

LatestBatches ==
    {b \in CalendarBatches : \A c \in CalendarBatches : c.created_at <= b.created_at}

BatchPayloads(b) == {p \in api_payloads : p.batch_id = b.id}

\* ApiPayload.get_payload
get_payload(p) == p.payload

\* A lookup that never finds the Event (variant for C6)
ExistingEventNotFound(p) == {}

\* db.query(Event).filter(Event.api_payload_id == payload.id).first()
ExistingEvent(p) == {e \in events : e.api_payload_id = p.id}

\* An update that forgets the status column (variant for C4)
UpdateEventDroppingStatus(e, data) ==
    [e EXCEPT !.title = data.title, !.start = data.start, !.end = data.end,
              !.description = data.description, !.location = data.location,
              !.all_day = data.all_day, !.organizer = data.organizer,
              !.attendees = data.attendees, !.status = NullStr,
              !.updated_at = now]

\* the columns process_events assigns on an existing Event
UpdateEvent(e, data) ==
    [e EXCEPT !.title = data.title, !.start = data.start, !.end = data.end,
              !.description = data.description, !.location = data.location,
              !.all_day = data.all_day, !.organizer = data.organizer,
              !.attendees = data.attendees, !.status = data.status,
              !.updated_at = now]

\* Event(api_payload_id=..., title=..., ...) with the column defaults
NewEvent(id, p, data) ==
    [id |-> id, api_payload_id |-> p.id, title |-> data.title,
     start |-> data.start, end |-> data.end,
     description |-> data.description, location |-> data.location,
     all_day |-> data.all_day, organizer |-> data.organizer,
     attendees |-> data.attendees, status |-> data.status,
     created_at |-> now, updated_at |-> now]

\* A run that stops at the first failing payload and commits nothing
\* (variant for C7)
ProcessOutcomeAborting(b) ==
    [events  |-> events, created |-> 0, updated |-> 0,
     errors  |-> IF \A p \in BatchPayloads(b) : Parse(get_payload(p)).ok
                 THEN 0 ELSE 1]

\* `compass process` on batch b: per payload parse, map, then update the
\* Event of that payload or create one; a failing payload is counted and
\* skipped; one commit at the end
ProcessOutcome(b) ==
    LET rows     == BatchPayloads(b)
        good     == {p \in rows : Parse(get_payload(p)).ok}
        toUpdate == {p \in good : ExistingEvent(p) # {}}
        toCreate == good \ toUpdate
        data(p)  == compass_event_to_event(Parse(get_payload(p)).value)
        old(p)   == CHOOSE e \in ExistingEvent(p) : TRUE
        rank(p)  == Cardinality({q \in toCreate : q.id < p.id})
    IN  [events  |-> (events \ {old(p) : p \in toUpdate})
                       \cup {UpdateEvent(old(p), data(p)) : p \in toUpdate}
                       \cup {NewEvent(nextId + rank(p), p, data(p)) : p \in toCreate},
         created |-> Cardinality(toCreate),
         updated |-> Cardinality(toUpdate),
         errors  |-> Cardinality(rows \ good)]

ProcessNoBatch ==
    /\ CalendarBatches = {}
    /\ last' = [cmd |-> "process", exit |-> 1,
                created |-> 0, updated |-> 0, errors |-> 0, batch |-> 0,
                upstream |-> {}, db |-> "closed", session |-> "none", failure |-> "none"]
    /\ UNCHANGED <<batches, api_payloads, events, now, deleted,
                   clientVars, stepVars>>

Process ==
    /\ \E b \in LatestBatches :
         LET out == ProcessOutcome(b)
         IN  /\ events' = out.events
             /\ last' = [cmd |-> "process", exit |-> 0,
                         created |-> out.created, updated |-> out.updated,
                         errors |-> out.errors, batch |-> b.id,
                         upstream |-> {}, db |-> "closed",
                         session |-> "none", failure |-> "none"]
    /\ UNCHANGED <<batches, api_payloads, now, deleted, clientVars, stepVars>>

\* the rows a table loses, as rows of `deleted`
Gone(table, rows) == {[table |-> table, id |-> r.id] : r \in rows}

\* events.api_payload_id REFERENCES api_payloads(id) with no ON DELETE action,
\* enforced (PRAGMA foreign_keys=ON): a payload row an Event refers to cannot
\* be deleted
ForeignKeyViolation(rows) == \E p \in rows : ExistingEvent(p) # {}

\* db.delete(batch); db.commit(): the relationship Batch.payloads cascades
\* "all, delete-orphan", so the unit of work deletes the batch's payload rows
\* and then the batch row; Event has no cascade from ApiPayload.  A failing
\* DELETE raises IntegrityError and the transaction is rolled back.
DeleteBatch ==
    /\ \E b \in batches :
         LET rows   == BatchPayloads(b)
             failed == ForeignKeyViolation(rows)
         IN  /\ batches' = IF failed THEN batches ELSE batches \ {b}
             /\ api_payloads' = IF failed THEN api_payloads
                                ELSE api_payloads \ rows
             /\ deleted' = IF failed THEN deleted
                           ELSE deleted \cup Gone("batches", {b})
                                        \cup Gone("api_payloads", rows)
             /\ last' = [cmd |-> "delete", exit |-> IF failed THEN 1 ELSE 0,
                         created |-> 0, updated |-> 0, errors |-> 0,
                         batch |-> b.id, upstream |-> {},
                         db |-> "closed", session |-> "none", failure |-> "none"]
    /\ UNCHANGED <<events, now, clientVars, stepVars>>

Tick ==
    /\ now < MaxTime
    /\ now' = now + 1
    /\ UNCHANGED <<batches, api_payloads, events, last, deleted,
                   clientVars, stepVars>>

InitLedger ==
    /\ batches = {}
    /\ api_payloads = {}
    /\ events = {}
    /\ now = 0
    /\ deleted = {}
    /\ last = [cmd |-> "none", exit |-> 0, created |-> 0, updated |-> 0,
               errors |-> 0, batch |-> 0, upstream |-> {},
               db |-> "none", session |-> "none", failure |-> "none"]

Next ==
    \/ Sync
    \/ StoreBatch
    \/ ProcessNoBatch
    \/ Process
    \/ Tick

DeleteNext ==
    \/ Sync
    \/ StoreBatch
    \/ ProcessNoBatch
    \/ Process
    \/ Tick
    \/ DeleteBatch

----------------------------------------------------------------------------
(* The Compass clients.  A URL is the sequence of its parts after the base *)
(* URL: the page, then the query.  An Optional[int] is the empty set for   *)
(* None, else the singleton of the number.                                 *)

LoginPage == <<"login.aspx", "sessionstate=disabled">>
LoginPageOtherCase == <<"Login.aspx", "sessionstate=disabled">>
HomePage == <<"home.aspx">>

FinalUrls == {LoginPage, LoginPageOtherCase, HomePage}

\* str.lower() on a part of a URL
LowerPart(part) ==
    CASE part = "Login.aspx" -> "login.aspx"
      [] OTHER -> part

Lower(url) == [i \in 1..Len(url) |-> LowerPart(url[i])]

\* `needle in url` (Python) / url.includes(needle) (JavaScript): a
\* case-sensitive substring test
Contains(url, needle) ==
    \E i \in 1..Len(url) :
       \/ url[i] = needle
       \/ needle = "login" /\ url[i] = "login.aspx"

\* the user id the portal assigns to the account
PortalUserId == 12345

UserIds == {{}, {PortalUserId}}

\* the class hierarchy of compass_client/exceptions.py over Exception
IsCompassClientError(cls) ==
    cls \in {"CompassClientError", "CompassAuthenticationError", "CompassParseError"}

NotAuthenticatedMsg == "Not authenticated. Call login() first."

\* `"not authenticated" in str(e).lower()`
SaysNotAuthenticated(msg) == msg = NotAuthenticatedMsg

Returned(client, op, before, sent, input) ==
    [client |-> client, op |-> op, outcome |-> "returned", error |-> "",
     message |-> "", before |-> before, sent |-> sent, input |-> input]

Raised(client, op, before, sent, input, cls, msg) ==
    [client |-> client, op |-> op, outcome |-> "raised", error |-> cls,
     message |-> msg, before |-> before, sent |-> sent, input |-> input]

\* what requests gives back: a transport failure (RequestException), or a
\* response with its status, its final URL and the user id its page embeds
NoResponse == [kind |-> "error", status |-> 0, url |-> <<>>, user_id |-> {}]

Responses(urls) ==
    {NoResponse} \cup
    [kind : {"response"}, status : {200, 500}, url : urls, user_id : UserIds]

\* response.raise_for_status() raises, or the request itself did
Failed(resp) == resp.kind = "error" \/ resp.status >= 400

InitClients ==
    /\ http = [authenticated |-> FALSE, user_id |-> {}]
    /\ mock = [authenticated |-> FALSE]
    /\ fetcher = [user_id |-> {}, logged_in |-> FALSE]
    /\ browser = [authenticated |-> FALSE, user_id |-> {}]
    /\ call = [client |-> "none", op |-> "none", outcome |-> "returned",
               error |-> "", message |-> "", before |-> FALSE, sent |-> 0,
               input |-> <<>>]

----------------------------------------------------------------------------
(* CompassClient: the requests based client.                               *)

\* A test of the final URL that keeps the case of the URL (variant for C9)
StillOnLoginPageCaseSensitive(url) == Contains(url, "login.aspx")

\* `"login.aspx" in response.url.lower()`
StillOnLoginPage(url) == Contains(Lower(url), "login.aspx")

\* _extract_session_metadata: an id found in the page replaces the one held
ExtractSessionMetadata(held, resp) ==
    IF resp.kind = "response" /\ resp.user_id # {} THEN resp.user_id ELSE held

\* CompassClient.login: GET the login page, POST the form, test the final URL
HttpLogin ==
    /\ \E get \in Responses({LoginPage}) :
       \E post \in (IF Failed(get) THEN {NoResponse} ELSE Responses(FinalUrls)) :
         LET before == http.authenticated
         IN  IF Failed(get)
             THEN /\ call' = Raised("http", "login", before, 1,
                                    [get |-> get, post |-> NoResponse],
                                    "CompassClientError", "Login request failed")
                  /\ http' = http
             ELSE IF Failed(post)
             THEN /\ call' = Raised("http", "login", before, 2,
                                    [get |-> get, post |-> post],
                                    "CompassClientError", "Login request failed")
                  /\ http' = http
             ELSE IF StillOnLoginPage(post.url)
             THEN /\ call' = Raised("http", "login", before, 2,
                                    [get |-> get, post |-> post],
                                    "CompassAuthenticationError",
                                    "Login failed: Invalid credentials or server error")
                  /\ http' = http
             ELSE /\ call' = Returned("http", "login", before, 2,
                                      [get |-> get, post |-> post])
                  /\ http' = [authenticated |-> TRUE,
                              user_id |-> ExtractSessionMetadata(http.user_id, post)]
    /\ UNCHANGED <<mock, fetcher, browser, dbVars, stepVars>>

\* get_user_details / get_calendar_events of CompassClient: the
\* authenticated check, _ensure_session_metadata, then the API POST.
\* The call record keeps the id held on entry, the follow-up GETs and API
\* POSTs that went out, and the user id the API POST carried.
HttpFetch(op, home, apiOk) ==
    LET before   == http.authenticated
        needHome == http.user_id = {}
        uid      == IF needHome THEN ExtractSessionMetadata(http.user_id, home)
                    ELSE http.user_id
        gets     == IF needHome THEN 1 ELSE 0
        input(posts) ==
            [home |-> IF needHome THEN home ELSE NoResponse, api |-> apiOk,
             held |-> http.user_id, gets |-> gets, posts |-> posts,
             user_id |-> IF posts > 0 THEN uid ELSE {}]
    IN  IF ~http.authenticated
        THEN /\ call' = Raised("http", op, before, 0, <<>>,
                               "CompassClientError", NotAuthenticatedMsg)
             /\ http' = http
        ELSE IF needHome /\ home.kind = "error"
        THEN /\ call' = Raised("http", op, before, 1, input(0),
                               "RequestException", "home.aspx request failed")
             /\ http' = http
        ELSE IF uid = {}
        THEN /\ call' = Raised("http", op, before, 1, input(0),
                               "CompassClientError",
                               "Failed to extract userId from Compass session")
             /\ http' = http
        ELSE IF ~apiOk
        THEN /\ call' = Raised("http", op, before, gets + 1, input(1),
                               "CompassClientError", "Failed to fetch")
             /\ http' = [http EXCEPT !.user_id = uid]
        ELSE /\ call' = Returned("http", op, before, gets + 1, input(1))
             /\ http' = [http EXCEPT !.user_id = uid]

HttpGetUserDetails ==
    /\ \E home \in Responses({HomePage}) : \E apiOk \in BOOLEAN :
          HttpFetch("get_user_details", home, apiOk)
    /\ UNCHANGED <<mock, fetcher, browser, dbVars, stepVars>>

HttpGetCalendarEvents ==
    /\ \E home \in Responses({HomePage}) : \E apiOk \in BOOLEAN :
          HttpFetch("get_calendar_events", home, apiOk)
    /\ UNCHANGED <<mock, fetcher, browser, dbVars, stepVars>>

\* A close that also logs the client out (variant for C28)
CloseSessionLoggingOut(client) == [client EXCEPT !.authenticated = FALSE]

\* self.session.close(): the connection pools of the requests.Session are
\* released; no attribute of the client is assigned
CloseSession(client) == client

\* CompassClient.close
HttpClose ==
    /\ http' = CloseSession(http)
    /\ call' = Returned("http", "close", http.authenticated, 0, <<>>)
    /\ UNCHANGED <<mock, fetcher, browser, dbVars, stepVars>>

----------------------------------------------------------------------------
(* CompassMockClient.                                                      *)

MockLogin ==
    /\ mock' = [authenticated |-> TRUE]
    /\ call' = Returned("mock", "login", mock.authenticated, 0, <<>>)
    /\ UNCHANGED <<http, fetcher, browser, dbVars, stepVars>>

\* the authenticated check of the mock's two fetches, then the canned data
MockFetch(op) ==
    IF ~mock.authenticated
    THEN Raised("mock", op, mock.authenticated, 0, <<>>,
                "Exception", NotAuthenticatedMsg)
    ELSE Returned("mock", op, mock.authenticated, 0, <<>>)

MockGetUserDetails ==
    /\ call' = MockFetch("get_user_details")
    /\ UNCHANGED <<http, mock, fetcher, browser, dbVars, stepVars>>

MockGetCalendarEvents ==
    /\ call' = MockFetch("get_calendar_events")
    /\ UNCHANGED <<http, mock, fetcher, browser, dbVars, stepVars>>

----------------------------------------------------------------------------
(* BrowserFetcher: the Playwright client, used inside its context manager. *)
(* It keeps no authenticated flag; fetcher.logged_in records that a        *)
(* login() has returned.                                                   *)

\* Python truthiness of an Optional[int]
Truthy(id) == id # {} /\ id # {0}

\* BrowserFetcher.login: goto the login page, fill and submit the form when
\* the username field shows up (a timeout here is logged and swallowed),
\* then test the URL the page is at
FetcherLogin ==
    /\ \E gotoOk, formVisible \in BOOLEAN :
       \E final \in (IF gotoOk THEN FinalUrls ELSE {<<>>}) :
       \E pageUserId \in (IF gotoOk THEN UserIds ELSE {{}}) :
         LET before == fetcher.logged_in
             input  == [submitted |-> gotoOk /\ formVisible,
                        url |-> final, cookies |-> {}]
             sent   == IF formVisible THEN 2 ELSE 1
         IN  IF ~gotoOk
             THEN /\ call' = Raised("fetcher", "login", before, 1, input,
                                    "TimeoutError", "Timeout 60000ms exceeded")
                  /\ fetcher' = fetcher
             ELSE IF Contains(Lower(final), "login")
             THEN /\ call' = Raised("fetcher", "login", before, sent, input,
                                    "Exception", "Login failed: Still on login page")
                  /\ fetcher' = fetcher
             ELSE /\ call' = Returned("fetcher", "login", before, sent, input)
                  /\ fetcher' = [user_id |-> IF pageUserId # {} THEN pageUserId
                                             ELSE fetcher.user_id,
                                 logged_in |-> TRUE]
    /\ UNCHANGED <<http, mock, browser, dbVars, stepVars>>

NoUserIdMsg == "No user ID available. Login first."

\* the record of a BrowserFetcher fetch: no extraction is attempted (gets 0)
FetcherInput(target, apiOk, posts, user_id) ==
    [target |-> target, api |-> apiOk, held |-> fetcher.user_id, gets |-> 0,
     posts |-> posts, user_id |-> IF posts > 0 THEN user_id ELSE {}]

\* BrowserFetcher.get_user_details(target_user_id)
FetcherGetUserDetails ==
    /\ \E target \in UserIds : \E apiOk \in BOOLEAN :
         LET user_id == IF Truthy(target) THEN target ELSE fetcher.user_id
         IN  call' = IF ~Truthy(user_id)
                     THEN Raised("fetcher", "get_user_details", fetcher.logged_in,
                                 0, FetcherInput(target, apiOk, 0, user_id),
                                 "Exception", NoUserIdMsg)
                     ELSE IF ~apiOk
                     THEN Raised("fetcher", "get_user_details", fetcher.logged_in,
                                 1, FetcherInput(target, apiOk, 1, user_id),
                                 "Exception",
                                 "Failed to fetch user details: empty response")
                     ELSE Returned("fetcher", "get_user_details",
                                   fetcher.logged_in, 1,
                                   FetcherInput(target, apiOk, 1, user_id))
    /\ UNCHANGED <<http, mock, fetcher, browser, dbVars, stepVars>>

\* BrowserFetcher.get_calendar_events
FetcherGetCalendarEvents ==
    /\ \E apiOk \in BOOLEAN :
         LET user_id == fetcher.user_id
         IN  call' = IF ~Truthy(user_id)
                     THEN Raised("fetcher", "get_calendar_events",
                                 fetcher.logged_in, 0,
                                 FetcherInput({}, apiOk, 0, user_id),
                                 "Exception", NoUserIdMsg)
                     ELSE IF ~apiOk
                     THEN Raised("fetcher", "get_calendar_events",
                                 fetcher.logged_in, 1,
                                 FetcherInput({}, apiOk, 1, user_id), "Exception",
                                 "Failed to fetch calendar events: empty response")
                     ELSE Returned("fetcher", "get_calendar_events",
                                   fetcher.logged_in, 1,
                                   FetcherInput({}, apiOk, 1, user_id))
    /\ UNCHANGED <<http, mock, fetcher, browser, dbVars, stepVars>>

----------------------------------------------------------------------------
(* CompassBrowserClient: the pyppeteer client.                             *)

CookieNames == {"cpsdid", "cf_clearance", "ASP.NET_SessionId"}

client_has_auth_cookies(cookies) ==
    \E name \in {"cpsdid", "__cf_chl_jschl_tk", "cf_clearance"} : name \in cookies

\* login_async (reached: the login page loaded and its form showed up; any
\* failure before the submit leaves through the outer except):
\* goto the login page, wait for the form, type and submit,
\* wait until location.href no longer includes 'login.aspx'; when that wait
\* times out, go on if the page holds one of the auth cookies
BrowserLogin ==
    /\ \E reached \in BOOLEAN :
       \E final \in (IF reached THEN FinalUrls ELSE {<<>>}) :
       \E cookies \in (IF reached THEN SUBSET CookieNames ELSE {{}}) :
       \E pageUserId \in (IF reached THEN UserIds ELSE {{}}) :
         LET before  == browser.authenticated
             input   == [submitted |-> reached, url |-> final,
                         cookies |-> cookies]
             navigation_success == ~Contains(final, "login.aspx")
             user_id == IF Truthy(pageUserId) THEN pageUserId
                        ELSE browser.user_id
         IN  IF ~reached
             THEN /\ call' = Raised("browser", "login", before, 1, input,
                                    "Exception", "Login failed: page not ready")
                  /\ browser' = browser
             ELSE IF navigation_success
             THEN /\ call' = Returned("browser", "login", before, 4, input)
                  /\ browser' = [authenticated |-> TRUE, user_id |-> user_id]
             ELSE IF client_has_auth_cookies(cookies)
             THEN /\ call' = Returned("browser", "login", before, 5, input)
                  /\ browser' = [authenticated |-> TRUE, user_id |-> user_id]
             ELSE /\ call' = Raised("browser", "login", before, 2, input,
                                    "Exception",
                                    "Login failed: Navigation failed and no authentication cookies present")
                  /\ browser' = [browser EXCEPT !.user_id = user_id]
    /\ UNCHANGED <<http, mock, fetcher, dbVars, stepVars>>

\* what the fetch() inside the page reports for the calendar API: status
\* 200, a 403 whose body is a Cloudflare challenge, or anything else
ApiStatuses == {"200", "403-challenge", "failed"}

\* get_calendar_events_async: the authenticated check, the user id (one
\* extraction from the page when none is held, 0 when that finds none), then
\* the API call from inside the page, sent a second time when the first
\* answer is a 403 Cloudflare challenge
BrowserGetCalendarEvents ==
    /\ \E pageUserId \in (IF browser.authenticated /\ browser.user_id = {}
                           THEN UserIds ELSE {{}}) :
       \E first \in (IF browser.authenticated THEN ApiStatuses ELSE {"failed"}) :
       \E retry \in (IF first = "403-challenge" THEN ApiStatuses ELSE {first}) :
         LET before  == browser.authenticated
             user_id == IF browser.user_id # {} THEN browser.user_id
                        ELSE IF Truthy(pageUserId) THEN pageUserId
                        ELSE {0}
             posts   == IF first = "403-challenge" THEN 2 ELSE 1
             input   == [target |-> user_id, api |-> retry = "200",
                         held |-> browser.user_id,
                         gets |-> IF browser.user_id = {} THEN 1 ELSE 0,
                         posts |-> posts, user_id |-> user_id,
                         first |-> first]
         IN  IF ~browser.authenticated
             THEN /\ call' = Raised("browser", "get_calendar_events", before,
                                    0, <<>>, "Exception", NotAuthenticatedMsg)
                  /\ browser' = browser
             ELSE IF retry # "200"
             THEN /\ call' = Raised("browser", "get_calendar_events", before,
                                    posts, input, "Exception",
                                    "Failed to fetch calendar events")
                  /\ browser' = [browser EXCEPT !.user_id = user_id]
             ELSE /\ call' = Returned("browser", "get_calendar_events",
                                      before, posts, input)
                  /\ browser' = [browser EXCEPT !.user_id = user_id]
    /\ UNCHANGED <<http, mock, fetcher, dbVars, stepVars>>

ClientNext ==
    \/ HttpLogin
    \/ HttpGetUserDetails
    \/ HttpGetCalendarEvents
    \/ HttpClose
    \/ MockLogin
    \/ MockGetUserDetails
    \/ MockGetCalendarEvents
    \/ FetcherLogin
    \/ FetcherGetUserDetails
    \/ FetcherGetCalendarEvents
    \/ BrowserLogin
    \/ BrowserGetCalendarEvents

----------------------------------------------------------------------------
(* The challenge wait of the two browser logins.  Time is counted in       *)
(* seconds from the start of the wait and passes only while the login      *)
(* sleeps or waits.                                                        *)

\* BrowserFetcher.login: self._wait_for_cloudflare(max_wait=60)
FetcherMaxWait == 60

\* time.sleep(2) between two looks at the page
FetcherPollInterval == 2

\* waitForFunction(..., timeout=60000) inside asyncio.wait_for(..., timeout=65.0)
BrowserFunctionTimeout == 60
BrowserOuterTimeout == 65

\* `await asyncio.sleep(5)  # Additional wait` after the timeout
BrowserExtraWait == 5

\* waitForFunction polls on every animation frame: well within one second
BrowserPollTick == 1

\* the earlier of the two timers ends the wait for the page function
BrowserWaitLimit ==
    IF BrowserFunctionTimeout < BrowserOuterTimeout
    THEN BrowserFunctionTimeout ELSE BrowserOuterTimeout

\* what a look at the page content can find
PageStates == {"challenge", "login form", "other page", "unreadable"}

NoWait ==
    [client |-> "none", phase |-> "idle", elapsed |-> 0, expired |-> FALSE,
     seen |-> "none"]

WaitOver == login_wait.phase \in {"idle", "form", "raised"}

\* A loop that runs two polls past its budget (variant for C13)
WaitGoesOnPastBudget(elapsed, max_wait) ==
    elapsed < max_wait + 2 * FetcherPollInterval

\* `while time.time() - start_time < max_wait`
WaitGoesOn(elapsed, max_wait) == elapsed < max_wait

\* BrowserFetcher.login reaches _wait_for_cloudflare: start_time = time.time()
FetcherWaitBegin ==
    /\ WaitOver
    /\ login_wait' = [client |-> "fetcher", phase |-> "waiting", elapsed |-> 0,
                      expired |-> FALSE, seen |-> "none"]
    /\ UNCHANGED <<dbVars, clientVars, applied>>

\* one turn of the loop: read the page; return on a login form or on a page
\* without challenge markers; otherwise (challenge, or the read raised)
\* sleep and go round again
FetcherWaitPoll ==
    /\ login_wait.client = "fetcher" /\ login_wait.phase = "waiting"
    /\ WaitGoesOn(login_wait.elapsed, FetcherMaxWait)
    /\ \E page \in PageStates :
         login_wait' =
            IF page \in {"login form", "other page"}
            THEN [login_wait EXCEPT !.phase = "form", !.seen = page]
            ELSE [login_wait EXCEPT !.seen = page,
                     !.elapsed = login_wait.elapsed + FetcherPollInterval]
    /\ UNCHANGED <<dbVars, clientVars, applied>>

\* the loop condition fails: "Cloudflare wait timeout - proceeding anyway"
FetcherWaitExpire ==
    /\ login_wait.client = "fetcher" /\ login_wait.phase = "waiting"
    /\ ~WaitGoesOn(login_wait.elapsed, FetcherMaxWait)
    /\ login_wait' = [login_wait EXCEPT !.phase = "form", !.expired = TRUE]
    /\ UNCHANGED <<dbVars, clientVars, applied>>

\* login_async after the login page loaded: the page content decides whether
\* there is a challenge to wait for; a failing read leaves through the outer
\* except
BrowserWaitBegin ==
    /\ WaitOver
    /\ \E page \in PageStates :
         login_wait' =
            [client |-> "browser",
             phase |-> CASE page = "challenge" -> "waiting"
                         [] page = "unreadable" -> "raised"
                         [] OTHER -> "form",
             elapsed |-> 0, expired |-> FALSE, seen |-> page]
    /\ UNCHANGED <<dbVars, clientVars, applied>>

\* the page function is polled: it holds (form there or challenge text gone),
\* it raises, or another tick passes
BrowserWaitTick ==
    /\ login_wait.client = "browser" /\ login_wait.phase = "waiting"
    /\ login_wait.elapsed < BrowserWaitLimit
    /\ \E outcome \in {"pending", "resolved", "error"} :
         login_wait' =
            CASE outcome = "pending" ->
                   [login_wait EXCEPT
                      !.elapsed = login_wait.elapsed + BrowserPollTick]
              [] outcome = "resolved" ->
                   [login_wait EXCEPT !.phase = "form", !.seen = "login form"]
              [] OTHER ->
                   [login_wait EXCEPT !.phase = "extra"]
    /\ UNCHANGED <<dbVars, clientVars, applied>>

\* the timer of the wait fires: except (Exception, asyncio.TimeoutError)
BrowserWaitTimeout ==
    /\ login_wait.client = "browser" /\ login_wait.phase = "waiting"
    /\ login_wait.elapsed >= BrowserWaitLimit
    /\ login_wait' = [login_wait EXCEPT !.phase = "extra", !.expired = TRUE]
    /\ UNCHANGED <<dbVars, clientVars, applied>>

\* the except branch: sleep 5 s more, read the page once ("continuing
\* anyway"); a failing read leaves through the outer except
BrowserWaitMore ==
    /\ login_wait.client = "browser" /\ login_wait.phase = "extra"
    /\ \E page \in PageStates :
         login_wait' =
            [login_wait EXCEPT
               !.elapsed = login_wait.elapsed + BrowserExtraWait,
               !.seen = page,
               !.phase = IF page = "unreadable" THEN "raised" ELSE "form"]
    /\ UNCHANGED <<dbVars, clientVars, applied>>

WaitNext ==
    \/ FetcherWaitBegin
    \/ FetcherWaitPoll
    \/ FetcherWaitExpire
    \/ BrowserWaitBegin
    \/ BrowserWaitTick
    \/ BrowserWaitTimeout
    \/ BrowserWaitMore

----------------------------------------------------------------------------
(* The pure functions of the library, applied to bounded inputs.           *)

MaxList == 3
MaxInputs == 2
MaxRows == 2
MaxRuns == 2

\* pydantic's e.errors(): one entry per field that is missing or ill typed
FieldErrors(raw) ==
    {<<key, "missing">> : key \in RequiredEventKeys \ raw.keys}
      \cup {<<key, "datetime_from_date_parsing">> :
               key \in {k \in {"start", "finish"} \cap raw.keys :
                          ~ParseDateTime(raw[k]).ok}}
      \cup {<<key, "string_type">> :
               key \in {k \in {"title", "description"} \cap raw.keys :
                          raw[k] = NullStr}}

\* CompassParseError(message, raw_data=..., validation_errors=...)
CompassParseError(index, raw_data, validation_errors) ==
    [index |-> index, raw_data |-> raw_data,
     validation_errors |-> validation_errors]

NoParseError == CompassParseError(-1, BaseEvent, {})

\* the first position from i on whose item fails model_validate, 0 if none
RECURSIVE FirstInvalidFrom(_, _)
FirstInvalidFrom(raw_list, i) ==
    IF i > Len(raw_list) THEN 0
    ELSE IF ~ValidEvent(raw_list[i]) THEN i
    ELSE FirstInvalidFrom(raw_list, i + 1)

\* An index counted from one (variant for C17)
EnumerateIndexFromOne(position) == position

\* enumerate(raw_list) counts from zero
EnumerateIndex(position) == position - 1

\* CompassParser._parse_list: the list comprehension stops at the first item
\* that fails, with its ValidationError e; the loop then looks for the first
\* item that fails and raises for it, carrying e.errors()
_parse_list(raw_list) ==
    LET stopped == FirstInvalidFrom(raw_list, 1)
        found   == FirstInvalidFrom(raw_list, 1)
    IN  IF stopped = 0
        THEN [ok |-> TRUE,
              value |-> [i \in 1..Len(raw_list) |-> CompassEvent(raw_list[i])],
              error |-> NoParseError]
        ELSE [ok |-> FALSE, value |-> <<>>,
              error |-> CompassParseError(EnumerateIndex(found), raw_list[found],
                                          FieldErrors(raw_list[stopped]))]

\* An error list that loses what is appended to it (variant for C16)
AppendErrorLost(errors, error) == errors

\* errors.append(error)
AppendError(errors, error) == Append(errors, error)

\* the loop of parse_safe from position i on; skip_invalid changes nothing
RECURSIVE ParseSafeFrom(_, _, _, _, _)
ParseSafeFrom(raw_list, i, skip_invalid, valid_items, errors) ==
    IF i > Len(raw_list) THEN [valid_items |-> valid_items, errors |-> errors]
    ELSE IF ValidEvent(raw_list[i])
    THEN ParseSafeFrom(raw_list, i + 1, skip_invalid,
                       Append(valid_items, CompassEvent(raw_list[i])), errors)
    ELSE ParseSafeFrom(raw_list, i + 1, skip_invalid, valid_items,
                       AppendError(errors,
                                   CompassParseError(EnumerateIndex(i), raw_list[i],
                                                     FieldErrors(raw_list[i]))))

\* CompassParser.parse_safe
parse_safe(raw_list, skip_invalid) ==
    ParseSafeFrom(raw_list, 1, skip_invalid, <<>>, <<>>)

\* the raw lists handed to the parser
ParserItems == {BaseEvent, SecondEvent, InvalidEvent, BadDateEvent}

RawLists == UNION {[1..n -> ParserItems] : n \in 0..MaxList}

\* raw items without a natural instance id: the key is missing or empty
FingerprintItems ==
    {[BaseEvent EXCEPT !.keys = keys, !.instanceId = "", !.activityId = a,
                       !.start = st, !.guid = g] :
        keys \in {(RequiredEventKeys \ {"instanceId"}) \ gone :
                     gone \in SUBSET {"activityId", "guid"}}
                 \cup {RequiredEventKeys},
        a \in {1, 2},
        st \in {"2025-12-20T18:00:00", "2025-12-20T18:00"},
        g \in {"", "guid-2", "00:guid-2"}}

\* raw items with a natural instance id
IdentifiedItems ==
    {[BaseEvent EXCEPT !.instanceId = inst, !.activityId = a, !.start = st,
                       !.guid = g] :
        inst \in {"inst-1", "inst-2"}, a \in {1, 2},
        st \in {"2025-12-20T18:00:00", "2025-12-20T18:00"},
        g \in {"guid-1", "guid-2"}}

\* an attribute the tag does not carry: input_field.get(...) gives None
NoAttr == "<no attribute>"

InputNames == {"__VIEWSTATE", "__EVENTTARGET", "__EVENTARGUMENT", "", NoAttr}
InputValues == {"dDwtMTA4", NoAttr}

InputFields == [name : InputNames, value : InputValues]

\* `if name:`
Named(field) == field.name # NoAttr /\ field.name # ""

\* the <input> tags of a form, in document order; a name is carried by one
\* input at most
Forms ==
    {form \in UNION {[1..n -> InputFields] : n \in 0..MaxInputs} :
        \A i, j \in 1..Len(form) :
           (i # j /\ Named(form[i])) => form[i].name # form[j].name}

\* a form further down the page
SearchForm == <<[name |-> "q", value |-> "timetable"]>>

\* login pages: no form, one form, or a form followed by another one
Pages ==
    {<<>>} \cup {<<form>> : form \in Forms}
           \cup {<<form, SearchForm>> : form \in Forms}

\* form_data[name] = value on a dict kept as its set of items
SetItem(form_data, name, value) ==
    {item \in form_data : item[1] # name} \cup {<<name, value>>}

Keys(form_data) == {item[1] : item \in form_data}

\* the loop over form.find_all("input") from position i on
RECURSIVE FormDataFrom(_, _, _)
FormDataFrom(form, i, form_data) ==
    IF i > Len(form) THEN form_data
    ELSE LET name  == form[i].name
             value == IF form[i].value = NoAttr THEN "" ELSE form[i].value
         IN  FormDataFrom(form, i + 1,
                          IF Named(form[i]) THEN SetItem(form_data, name, value)
                          ELSE form_data)

\* An extraction that adds no postback marker (variant for C19)
WithoutPostbackMarkers(form_data) == form_data

\* the two `if ... not in form_data` defaults
WithPostbackMarkers(form_data) ==
    LET target == IF "__EVENTTARGET" \in Keys(form_data) THEN form_data
                  ELSE SetItem(form_data, "__EVENTTARGET", "button1")
    IN  IF "__EVENTARGUMENT" \in Keys(target) THEN target
        ELSE SetItem(target, "__EVENTARGUMENT", "")

\* CompassClient._extract_form_fields: soup.find("form") is the first form
_extract_form_fields(page) ==
    WithPostbackMarkers(IF Len(page) > 0 THEN FormDataFrom(page[1], 1, {})
                        ELSE {})

\* valid raw events with every shape of location and locations
LocatedEvents ==
    {[BaseEvent EXCEPT !.keys = RequiredEventKeys \cup keys,
                       !.location = loc, !.locations = locs] :
        keys \in SUBSET {"location", "locations"},
        loc \in {NullStr, "", "Room 5"},
        locs \in {<<>>, <<"Gym">>, <<NullStr, "Hall">>, <<"", "Hall">>}}

\* running_status is an int: the three known codes and some others
RunningStatusCodes == {-1, 0, 1, 2, 3, 999}

\* valid raw events with every running status
StatusEvents ==
    {[BaseEvent EXCEPT !.runningStatus = code] : code \in RunningStatusCodes}

\* JSON values as the clients test them: null, a list with its items, a dict
\* with its keys; a dict of the API answers carries one key at most, whose
\* value is `inner`
JNull == [type |-> "null", items |-> <<>>, keys |-> {}]

JList(items) == [type |-> "list", items |-> items, keys |-> {}]

JObject(keys) == [type |-> "dict", items |-> <<>>, keys |-> keys]

Envelope(key, inner) ==
    [type |-> "dict", items |-> <<>>, keys |-> {key}, inner |-> inner]

\* isinstance(value, list) / isinstance(value, dict)
IsList(value) == value.type = "list"
IsDict(value) == value.type = "dict"

\* `not response`
Falsy(value) ==
    \/ value.type = "null"
    \/ IsList(value) /\ value.items = <<>>
    \/ IsDict(value) /\ value.keys = {}

\* what a fetch hands to its caller
Return(value) == [raised |-> FALSE, error |-> "", value |-> value]

Raise(cls) == [raised |-> TRUE, error |-> cls, value |-> JNull]

\* the calendar items of an upstream answer of n items
Served(n) ==
    [i \in 1..n |-> CASE i % 3 = 1 -> BaseEvent
                      [] i % 3 = 2 -> SecondEvent
                      [] OTHER     -> UnknownStatusEvent]

ServedLists == {JList(Served(n)) : n \in 0..MaxList}

UserDetailsBlob == JObject({"userId", "userFullName"})

\* the JSON bodies of the two API answers: bare, inside the "d" envelope
\* (payload null, a dict, a list, or a list under "data"), or under "data"
ApiBodies ==
    {JNull, JObject({}), UserDetailsBlob} \cup ServedLists
      \cup {Envelope("d", inner) :
               inner \in {JNull, JObject({}), UserDetailsBlob} \cup ServedLists
                          \cup {Envelope("data", list) : list \in ServedLists}}
      \cup {Envelope("data", list) : list \in ServedLists}

\* the limit argument (default 100: above the length of every answer)
Limits == 0..(MaxList + 1)

\* list[:limit] for a limit that is not negative
Slice(list, limit) ==
    JList(SubSeq(list.items, 1, IF limit < Len(list.items) THEN limit
                                ELSE Len(list.items)))

\* value[:limit] on whatever the key held: only a list can be sliced
SliceOf(value, limit) ==
    IF IsList(value) THEN Return(Slice(value, limit)) ELSE Raise("TypeError")

\* CompassClient.get_calendar_events after response.json(): unwrap "d", then
\* `events if isinstance(events, list) else []`
HttpCalendarResult(data, limit) ==
    LET evs == IF IsDict(data) /\ "d" \in data.keys THEN data.inner ELSE data
    IN  Return(IF IsList(evs) THEN evs ELSE JList(<<>>))

\* CompassClient.get_user_details after response.json()
HttpUserResult(data) ==
    LET user_details == IF IsDict(data) /\ "d" \in data.keys THEN data.inner
                        ELSE data
    IN  Return(IF IsDict(user_details) THEN user_details ELSE JObject({}))

\* BrowserFetcher.get_calendar_events after page.evaluate
FetcherCalendarResult(response, limit) ==
    IF Falsy(response) THEN Raise("Exception")
    ELSE IF IsDict(response) /\ "d" \in response.keys
              /\ IsList(response.inner)
    THEN Return(Slice(response.inner, limit))
    ELSE IF IsDict(response) /\ "d" \in response.keys
              /\ IsDict(response.inner) /\ "data" \in response.inner.keys
    THEN SliceOf(response.inner.inner, limit)
    ELSE IF IsDict(response) /\ "d" \notin response.keys
              /\ "data" \in response.keys
    THEN SliceOf(response.inner, limit)
    ELSE IF IsList(response) THEN Return(Slice(response, limit))
    ELSE Return(JList(<<>>))

\* BrowserFetcher.get_user_details after page.evaluate
FetcherUserResult(response) ==
    IF Falsy(response) THEN Raise("Exception")
    ELSE IF IsDict(response) /\ "d" \in response.keys
    THEN Return(response.inner)
    ELSE Return(response)

\* get_calendar_events_async of the pyppeteer client on a status 200 answer:
\* data = response_data.get('data')
BrowserCalendarResult(data, limit) ==
    LET evs == IF IsDict(data) /\ "d" \in data.keys THEN data.inner
               ELSE IF IsList(data) THEN data ELSE JList(<<>>)
    IN  Return(IF IsList(evs) THEN evs ELSE JList(<<>>))

\* CompassMockClient.get_calendar_events on the events of its data set that
\* start inside the date range: `filtered[:limit]`
MockCalendarResult(filtered, limit) == Return(Slice(filtered, limit))

\* the clients whose fetches unwrap an API answer
UnwrappingClients == {"http", "fetcher", "browser", "mock"}

\* the texts given as mode argument or COMPASS_MODE; an Optional[str] is the
\* empty set for None (an unset variable), else the singleton of the text
ModeTexts == {"", " ", "mock", "Mock", " MOCK ", "real", "REAL", "invalid"}

OptionalModes == {{}} \cup {{text} : text \in ModeTexts}

\* str.lower()
LowerText(text) ==
    CASE text = "Mock" -> "mock"
      [] text = " MOCK " -> " mock "
      [] text = "REAL" -> "real"
      [] OTHER -> text

\* str.strip()
StripText(text) ==
    CASE text = " " -> ""
      [] text = " MOCK " -> "MOCK"
      [] text = " mock " -> "mock"
      [] OTHER -> text

\* the text of an Optional[str] that is not None
TextOf(optional) == CHOOSE text \in optional : TRUE

\* os.getenv("COMPASS_MODE", "real")
GetEnv(env) == IF env = {} THEN "real" ELSE TextOf(env)

\* `mode or os.getenv("COMPASS_MODE", "real")`: None and "" are both falsy
ModeOrEnv(mode, env) ==
    IF mode # {} /\ mode # {""} THEN TextOf(mode) ELSE GetEnv(env)

\* create_client(base_url, username, password, mode) under an environment
create_client(mode, env) ==
    LET effective_mode_raw == ModeOrEnv(mode, env)
        stripped           == StripText(LowerText(effective_mode_raw))
        effective_mode     == IF stripped = "" THEN "real" ELSE stripped
    IN  IF effective_mode = "mock"
        THEN [raised |-> FALSE, error |-> "", client |-> "CompassMockClient"]
        ELSE IF effective_mode = "real"
        THEN [raised |-> FALSE, error |-> "", client |-> "CompassClient"]
        ELSE [raised |-> TRUE, error |-> "ValueError", client |-> "none"]

\* a payload column that holds a JSON array, not an object
JsonArrayPayload == [keys |-> {}, array |-> <<1, 2>>]

\* isinstance of the decoded payload: payload.get exists on a dict only
IsObject(payload) == payload # JsonArrayPayload

\* an occurrence without instance id
UnidentifiedEvent == [SecondEvent EXCEPT !.instanceId = ""]

\* what a row of the table before the migration can hold: the method and
\* the payload
StoredPayloads ==
    {<<"get_calendar_events", BaseEvent>>,
     <<"get_calendar_events", UnidentifiedEvent>>,
     <<"get_calendar_events", JsonArrayPayload>>,
     <<"get_user_details", UserBlob>>}

\* a row of api_payloads as sqlite3 sees it; the columns the table does not
\* have yet read as NULL
TableRow(id, held, created_at) ==
    [id |-> id, adapter_id |-> "compass", method_name |-> held[1],
     payload |-> held[2], created_at |-> created_at,
     external_id |-> NoExternalId, updated_at |-> -1]

OldColumns == {"id", "adapter_id", "method_name", "batch_id", "payload", "created_at"}

\* the databases the migration is run on: the file is missing, or
\* api_payloads has the columns of the first schema and up to MaxRows rows
OldDatabases ==
    {[exists |-> FALSE, columns |-> {}, unique |-> FALSE, rows |-> {}]} \cup
    {[exists |-> TRUE, columns |-> OldColumns, unique |-> FALSE,
      rows |-> {TableRow(i, held[i], at[i]) : i \in 1..n}] :
        n \in 0..MaxRows,
        held \in [1..MaxRows -> StoredPayloads],
        at \in [1..MaxRows -> 0..MaxTime]}

\* the external id the migration computes for a row (lines 71-87): the
\* instance id or the fingerprint for a calendar row, str(userId) for a
\* user details row
MigrationExternalId(row) ==
    IF row.method_name = "get_calendar_events"
    THEN IF Has(row.payload, "instanceId") /\ row.payload.instanceId # NullStr
              /\ row.payload.instanceId # ""
         THEN [natural |-> row.payload.instanceId, digest |-> <<>>]
         ELSE [natural |-> "", digest |-> HashInput(row.payload)]
    ELSE [natural |-> IF Has(row.payload, "userId") THEN "12345"
                      ELSE "unknown",
          digest |-> <<>>]

\* the two UPDATE passes: external_id for every row, updated_at = created_at
\* where it is NULL
Populated(rows) ==
    {[r EXCEPT !.external_id = MigrationExternalId(r),
               !.updated_at = r.created_at] : r \in rows}

\* ORDER BY created_at DESC inside a key: r can get ROW_NUMBER 1
NewestOfKey(rows, r) ==
    \A q \in rows : PayloadKey(q) = PayloadKey(r) => q.created_at <= r.created_at

\* INSERT INTO api_payloads_new ... WHERE rn = 1: one row of each key, a
\* newest one; which of several newest rows gets rn = 1 is up to SQLite
Deduplicated(rows) ==
    {kept \in SUBSET rows :
        /\ \A r \in kept : NewestOfKey(rows, r)
        /\ \A r \in rows : \E q \in kept : PayloadKey(q) = PayloadKey(r)
        /\ \A q, r \in kept : PayloadKey(q) = PayloadKey(r) => q = r}

\* migrate(db_path), start to return.  The two ALTER TABLE statements run
\* outside a transaction (sqlite3 begins one before the first UPDATE), so
\* they stay when a later statement raises and the rest is rolled back.
MigrateOutcomes(db) ==
    IF ~db.exists THEN {[db |-> db, returned |-> FALSE]}
    ELSE IF "external_id" \in db.columns THEN {[db |-> db, returned |-> TRUE]}
    ELSE LET altered == [db EXCEPT
                           !.columns = @ \cup {"external_id", "updated_at"}]
         IN  IF \E r \in db.rows : ~IsObject(r.payload)
             THEN {[db |-> altered, returned |-> FALSE]}
             ELSE {[db |-> [altered EXCEPT !.rows = kept, !.unique = TRUE],
                    returned |-> TRUE] : kept \in Deduplicated(Populated(db.rows))}

NotApplied == [fn |-> "none", input |-> <<>>, output |-> <<>>]

Given(kind, value) ==
    [fn |-> "none", input |-> [kind |-> kind, value |-> value], output |-> <<>>]

Apply(fn, output) == [fn |-> fn, input |-> applied.input, output |-> output]

Pending(kind) == applied.fn = "none" /\ applied.input.kind = kind

FunctionInit ==
    /\ InitLedger /\ InitClients /\ login_wait = NoWait
    /\ \/ \E raw_list \in RawLists : applied = Given("raw_list", raw_list)
       \/ \E a, b \in FingerprintItems : applied = Given("payloads", <<a, b>>)
       \/ \E a \in IdentifiedItems :
          \E b \in IdentifiedItems \cup {[a EXCEPT !.instanceId = ""]} :
             applied = Given("payloads", <<a, b>>)
       \/ \E page \in Pages : applied = Given("page", page)
       \/ \E raw \in LocatedEvents \cup StatusEvents :
             applied = Given("event", raw)
       \/ \E db \in OldDatabases : applied = Given("database", db)
       \/ \E mode \in OptionalModes : \E env \in OptionalModes :
             applied = Given("mode", [mode |-> mode, env |-> env])
       \/ \E body \in ApiBodies : \E limit \in Limits :
             applied = Given("answer", [body |-> body, limit |-> limit,
                                        client |-> "none"])

\* CompassParser.parse(CompassEvent, raw_list)
ApplyParse ==
    /\ Pending("raw_list")
    /\ applied' = Apply("parse", _parse_list(applied.input.value))
    /\ UNCHANGED <<dbVars, clientVars, login_wait>>

\* CompassParser.parse_safe(CompassEvent, raw_list, skip_invalid)
ApplyParseSafe ==
    /\ Pending("raw_list")
    /\ \E skip_invalid \in BOOLEAN :
         applied' = Apply("parse_safe",
                          parse_safe(applied.input.value, skip_invalid))
    /\ UNCHANGED <<dbVars, clientVars, login_wait>>

\* ApiPayload.generate_external_id on each of two payloads
ApplyGenerateExternalId ==
    /\ Pending("payloads")
    /\ applied' = Apply("generate_external_id",
                        <<generate_external_id(applied.input.value[1]),
                          generate_external_id(applied.input.value[2])>>)
    /\ UNCHANGED <<dbVars, clientVars, login_wait>>

\* CompassClient._extract_form_fields(response.text)
ApplyExtractFormFields ==
    /\ Pending("page")
    /\ applied' = Apply("_extract_form_fields",
                        _extract_form_fields(applied.input.value))
    /\ UNCHANGED <<dbVars, clientVars, login_wait>>

\* compass_event_to_event(CompassParser.parse(CompassEvent, raw))
ApplyCompassEventToEvent ==
    /\ Pending("event")
    /\ applied' = Apply("compass_event_to_event",
                        compass_event_to_event(Parse(applied.input.value).value))
    /\ UNCHANGED <<dbVars, clientVars, login_wait>>

\* get_calendar_events(start_date, end_date, limit) of each client, from the
\* answer of the upstream on
ApplyGetCalendarEvents ==
    /\ Pending("answer")
    /\ \E client \in UnwrappingClients :
         LET body  == applied.input.value.body
             limit == applied.input.value.limit
         IN  /\ client = "mock" => IsList(body)
             /\ applied' =
                  [fn |-> "get_calendar_events",
                   input |-> [kind |-> "answer",
                              value |-> [body |-> body, limit |-> limit,
                                         client |-> client]],
                   output |-> CASE client = "http" ->
                                     HttpCalendarResult(body, limit)
                                [] client = "fetcher" ->
                                     FetcherCalendarResult(body, limit)
                                [] client = "browser" ->
                                     BrowserCalendarResult(body, limit)
                                [] OTHER ->
                                     MockCalendarResult(body, limit)]
    /\ UNCHANGED <<dbVars, clientVars, login_wait>>

\* get_user_details() of the two clients that unwrap an answer
ApplyGetUserDetails ==
    /\ Pending("answer")
    /\ \E client \in {"http", "fetcher"} :
         LET body  == applied.input.value.body
             limit == applied.input.value.limit
         IN  applied' =
               [fn |-> "get_user_details",
                input |-> [kind |-> "answer",
                           value |-> [body |-> body, limit |-> limit,
                                      client |-> client]],
                output |-> IF client = "http" THEN HttpUserResult(body)
                           ELSE FetcherUserResult(body)]
    /\ UNCHANGED <<dbVars, clientVars, login_wait>>

\* create_client(..., mode=mode) with COMPASS_MODE as the environment has it
ApplyCreateClient ==
    /\ Pending("mode")
    /\ applied' = Apply("create_client",
                        create_client(applied.input.value.mode,
                                      applied.input.value.env))
    /\ UNCHANGED <<dbVars, clientVars, login_wait>>

\* migrate(db_path) on a database, and again on what a run left
ApplyMigrate ==
    /\ applied.input.kind = "database"
    /\ \/ applied.fn = "none"
       \/ applied.fn = "migrate" /\ applied.output.runs < MaxRuns
    /\ LET first == applied.fn = "none"
           db    == IF first THEN applied.input.value ELSE applied.output.db
       IN  \E out \in MigrateOutcomes(db) :
              applied' =
                 [fn |-> "migrate", input |-> applied.input,
                  output |-> [db |-> out.db, returned |-> out.returned,
                              before |-> db,
                              runs |-> IF first THEN 1
                                       ELSE applied.output.runs + 1,
                              succeeded |-> ~first /\
                                            (applied.output.succeeded
                                               \/ applied.output.returned)]]
    /\ UNCHANGED <<dbVars, clientVars, login_wait>>

FunctionNext ==
    \/ ApplyParse
    \/ ApplyParseSafe
    \/ ApplyGenerateExternalId
    \/ ApplyExtractFormFields
    \/ ApplyCompassEventToEvent
    \/ ApplyGetCalendarEvents
    \/ ApplyGetUserDetails
    \/ ApplyCreateClient
    \/ ApplyMigrate

InitSteps ==
    /\ login_wait = NoWait
    /\ applied = NotApplied

Init == InitLedger /\ InitClients /\ InitSteps

Spec == Init /\ [][Next]_vars

DeleteSpec == Init /\ [][DeleteNext]_vars

ClientSpec == Init /\ [][ClientNext]_vars

WaitSpec == Init /\ [][WaitNext]_vars

FunctionSpec == FunctionInit /\ [][FunctionNext]_vars

----------------------------------------------------------------------------
(* Properties of the ledger (checked under Spec).                          *)

CalendarKey(raw) == <<"compass", "get_calendar_events", generate_external_id(raw)>>

\* rows of table t that hold the occurrence of raw item raw
RowsOf(t, raw) == {r \in t : PayloadKey(r) = CalendarKey(raw)}

\* Events in table evs whose origin is payload p
EventsOf(evs, p) == {e \in evs : e.api_payload_id = p.id}

\* Events in table evs that stand for the occurrence of raw item raw
EventsOfOccurrence(evs, t, raw) ==
    {e \in evs : \E r \in RowsOf(t, raw) : e.api_payload_id = r.id}

AllValid(b) == \A p \in BatchPayloads(b) : ValidEvent(get_payload(p))

\* C1: after a sync run that met no outside failure, every occurrence the
\* portal served is held by exactly one ApiPayload row, and that row carries
\* the served payload and the time of the run as updated-at (a re-observed
\* occurrence updates its row, none is duplicated).
C1_SyncUpsertsOneRowPerOccurrence ==
    [][Sync =>
         \A raw \in last'.upstream :
            /\ Cardinality(RowsOf(api_payloads', raw)) = 1
            /\ \A r \in RowsOf(api_payloads', raw) :
                  r.payload = raw /\ r.updated_at = now']_vars

\* C2: a process run that follows a sync run leaves exactly one Event for
\* every valid occurrence the portal served to that sync, however often
\* sync and process ran before.
C2_OneEventPerServedOccurrence ==
    [][((Process \/ ProcessNoBatch) /\ last.cmd = "sync") =>
         \A raw \in last.upstream :
            ValidEvent(raw) =>
               Cardinality(EventsOfOccurrence(events', api_payloads', raw)) = 1]_vars

\* C3: a sync run that is served an occurrence already stored in the ledger
\* completes with exit code 0.
C3_ResyncDoesNotFail ==
    [][(Sync /\ \E raw \in last'.upstream : RowsOf(api_payloads, raw) # {})
          => last'.exit = 0]_vars

\* C4: a process run that directly follows a process run of the same batch
\* (the clock may have advanced, nothing else was written) keeps the set of
\* Events and every derived field of every Event; updated-at never decreases.
C4_SecondProcessKeepsDerivedFields ==
    [][(last.cmd = "process" /\ last.exit = 0 /\ last'.batch = last.batch
          /\ Process) =>
         /\ {e.id : e \in events'} = {e.id : e \in events}
         /\ \A e \in events : \A f \in events' :
               f.id = e.id =>
                  /\ Derived(f) = Derived(e)
                  /\ f.api_payload_id = e.api_payload_id
                  /\ f.created_at = e.created_at
                  /\ f.updated_at >= e.updated_at]_vars

\* an Event was re-processed at a later time than it was created
C4_Witness ==
    /\ last.cmd = "process" /\ last.exit = 0 /\ last.updated > 0
    /\ \E e \in events : \E p \in api_payloads :
          /\ p.id = e.api_payload_id /\ p.batch_id = last.batch
          /\ e.updated_at > e.created_at

\* C5: for a batch of N valid payloads, a process run that finds no Event of
\* the batch reports N created, 0 updated, 0 errors and leaves N Events of
\* the batch; the process run that directly follows it on the same batch
\* reports 0 created, N updated, 0 errors and the Events stay N.
C5_CreatedThenUpdatedCounts ==
    [][\A b \in batches :
         (last'.cmd = "process" /\ last'.batch = b.id /\ AllValid(b) /\ Process) =>
            LET N      == Cardinality(BatchPayloads(b))
                ofB(t) == UNION {EventsOf(t, p) : p \in BatchPayloads(b)}
            IN  /\ ofB(events) = {} =>
                      /\ last'.created = N /\ last'.updated = 0
                      /\ last'.errors = 0
                      /\ Cardinality(ofB(events')) = N
                /\ (last.cmd = "process" /\ last.batch = b.id
                        /\ last.created = N /\ last.updated = 0) =>
                      /\ last'.created = 0 /\ last'.updated = N
                      /\ last'.errors = 0
                      /\ Cardinality(ofB(events')) = N
                      /\ Cardinality(events') = Cardinality(events)]_vars

\* the second run over a batch of two valid payloads has reported
C5_Witness ==
    /\ last.cmd = "process" /\ last.exit = 0
    /\ last.created = 0 /\ last.updated = 2 /\ last.errors = 0
    /\ \E b \in batches :
          /\ b.id = last.batch /\ AllValid(b)
          /\ Cardinality(BatchPayloads(b)) = 2
    /\ Cardinality(events) = 2

\* C6: no two Event rows have the same api_payload_id.
C6_OneEventPerPayload ==
    \A e1, e2 \in events : e1.api_payload_id = e2.api_payload_id => e1 = e2

\* Events of two batches are in the table and a run has updated some
C6_Witness ==
    /\ last.cmd = "process" /\ last.updated >= 1
    /\ \E e1, e2 \in events : \E p1, p2 \in api_payloads :
          /\ p1.id = e1.api_payload_id /\ p2.id = e2.api_payload_id
          /\ p1.batch_id # p2.batch_id

\* C7: a process run counts each payload that fails validation as one error
\* and leaves it without an Event; the run exits 0 and every valid payload
\* of the batch has its one Event, carrying the fields the normalizer
\* derives, each counted as created or updated.
C7_InvalidPayloadIsSkipped ==
    [][\A b \in batches :
         (last'.cmd = "process" /\ last'.batch = b.id /\ Process) =>
            LET rows == BatchPayloads(b)
                bad  == {p \in rows : ~ValidEvent(get_payload(p))}
            IN  /\ last'.exit = 0
                /\ last'.errors = Cardinality(bad)
                /\ last'.created + last'.updated = Cardinality(rows \ bad)
                /\ \A p \in bad :
                      EventsOf(events', p) = {} /\ EventsOf(events, p) = {}
                /\ \A p \in rows \ bad :
                      /\ Cardinality(EventsOf(events', p)) = 1
                      /\ \A e \in EventsOf(events', p) :
                            Derived(e) = compass_event_to_event(
                                            CompassEvent(get_payload(p)))]_vars

\* a run has skipped an invalid payload and created the Event of its sibling
C7_Witness ==
    /\ last.cmd = "process" /\ last.exit = 0
    /\ last.errors = 1 /\ last.created = 1
    /\ \E b \in batches :
          /\ b.id = last.batch
          /\ \E p, q \in BatchPayloads(b) :
                /\ ~ValidEvent(get_payload(p)) /\ EventsOf(events, p) = {}
                /\ ValidEvent(get_payload(q)) /\ EventsOf(events, q) # {}

\* C27: a process run works on the most recently created
\* get_calendar_events batch only: every Event it creates or updates has
\* its origin in a payload of that batch, the Events of the other batches'
\* payloads stay as they are, and no batch and no payload row changes.
C27_ProcessTouchesLatestBatchOnly ==
    [][(last'.cmd = "process" /\ last'.exit = 0 /\ Process) =>
          \E b \in CalendarBatches :
             /\ b.id = last'.batch
             /\ \A c \in CalendarBatches : c.created_at <= b.created_at
             /\ \A e \in (events' \ events) \cup (events \ events') :
                   \E p \in BatchPayloads(b) : e.api_payload_id = p.id
             /\ api_payloads' = api_payloads
             /\ batches' = batches]_vars

\* two calendar batches, the older one processed before the newer one was
\* stored: the run on the newer batch created its Events and the Event of
\* the older batch still carries its first timestamps
C27_Witness ==
    /\ last.cmd = "process" /\ last.exit = 0 /\ last.created > 0
    /\ \E older, newer \in CalendarBatches :
          /\ older.created_at < newer.created_at
          /\ last.batch = newer.id
          /\ \E p \in BatchPayloads(older) : \E e \in events :
                /\ e.api_payload_id = p.id
                /\ e.updated_at = older.created_at
          /\ \E p \in BatchPayloads(newer) : \E e \in events :
                /\ e.api_payload_id = p.id
                /\ e.created_at = newer.created_at

\* C29: a sync run commits the Batch row of a fetch before the fetch goes
\* out and leaves it in place when the fetch fails.  A run whose user fetch
\* fails leaves a new get_user_details batch without payloads; a run whose
\* calendar fetch fails leaves a new get_calendar_events batch without
\* payloads, and a process run that follows selects that batch and creates
\* and updates no Event.
C29_FailedFetchLeavesEmptyBatch ==
    [][/\ (last'.cmd = "sync" /\ last'.failure \in {"user", "events"} /\ Sync) =>
             \E b \in batches' \ batches :
                /\ b.method_name = (IF last'.failure = "user"
                                     THEN "get_user_details"
                                     ELSE "get_calendar_events")
                /\ \A p \in api_payloads' : p.batch_id # b.id
       /\ (last.cmd = "sync" /\ last.failure = "events"
             /\ last'.cmd = "process" /\ (Process \/ ProcessNoBatch)) =>
             /\ last'.exit = 0
             /\ last'.created = 0 /\ last'.updated = 0
             /\ BatchPayloads(CHOOSE b \in batches : b.id = last'.batch) = {}
             /\ events' = events]_vars

\* C22: deleting a batch removes the batch, every payload row of the batch
\* and every Event derived from those payloads: afterwards no payload row
\* refers to the deleted batch and every Event refers to a payload row that
\* exists.
C22_DeleteBatchCascadesToEvents ==
    [][(last'.cmd = "delete" /\ DeleteBatch) =>
          /\ \A b \in batches' : b.id # last'.batch
          /\ \A p \in api_payloads' : p.batch_id # last'.batch
          /\ \A e \in events' :
                \E p \in api_payloads' : p.id = e.api_payload_id]_vars

\* C14: when a sync invocation is over, however it ended, the HTTP session
\* and the database session it acquired have been closed.
C14_SessionClosedOnEveryExit ==
    last.cmd = "sync" =>
        /\ last.session \in {"none", "closed"}
        /\ last.db \in {"none", "closed"}

----------------------------------------------------------------------------
(* Properties of the clients (checked under ClientSpec).                   *)

\* the page of the URL is the login endpoint (page names are matched
\* without regard to case by the portal)
LoginEndpoint(url) == LowerPart(url[1]) = "login.aspx"

\* a response came back for the request, whatever its status
Answered(resp) == resp.kind = "response"

HttpLoginCall == call.client = "http" /\ call.op = "login"

BrowserLoginCall == call.op = "login" /\ call.client \in {"fetcher", "browser"}

\* C8: on every client, get_user_details and get_calendar_events called
\* before any login has succeeded raise a CompassClientError that says
\* "not authenticated", and send no upstream request.
C8_FetchBeforeLoginIsRejected ==
    (call.op \in {"get_user_details", "get_calendar_events"} /\ ~call.before) =>
        /\ call.outcome = "raised"
        /\ IsCompassClientError(call.error)
        /\ SaysNotAuthenticated(call.message)
        /\ call.sent = 0

C10_BrowserLoginNeedsNavigation ==
    BrowserLoginCall =>
        LET navigated == call.input.submitted /\ ~LoginEndpoint(call.input.url)
            marked    == IF call.client = "browser" THEN browser.authenticated
                         ELSE fetcher.logged_in
        IN  /\ call.outcome = "returned" => navigated
            /\ ~navigated => call.outcome = "raised" /\ marked = call.before

FetchOps == {"get_user_details", "get_calendar_events"}

\* a fetch that got past the authenticated check of its client (for the
\* Playwright fetcher: one made after a login has returned)
AuthorizedFetch ==
    /\ call.op \in FetchOps
    /\ call.client \in {"http", "fetcher", "browser"}
    /\ call.before

\* C11: on an authorized fetch of the HTTP or a browser-driven client, a
\* missing user id leads to exactly one further extraction attempt (none
\* when the id is held); when the attempt finds no id the call raises the
\* session error without an API request; an API request that goes out
\* carries a real user id, never a missing or placeholder one.
C11_MissingUserIdStopsTheCall ==
    AuthorizedFetch =>
        LET in        == call.input
            attempted == IF call.client = "http" THEN in.home.kind = "response"
                         ELSE TRUE
        IN  /\ in.gets = (IF in.held = {} THEN 1 ELSE 0)
            /\ in.posts > 0 => Truthy(in.user_id)
            /\ (in.posts = 0 /\ attempted) =>
                  /\ call.outcome = "raised"
                  /\ IsCompassClientError(call.error)

\* a request of the last HTTP client call met a network-level failure
HttpNetworkFailure ==
    /\ call.client = "http"
    /\ \/ /\ call.op = "login"
          /\ Failed(call.input.get) \/ (call.sent = 2 /\ Failed(call.input.post))
       \/ /\ call.op \in FetchOps /\ call.before
          /\ \/ call.input.gets = 1 /\ call.input.home.kind = "error"
             \/ call.input.posts = 1 /\ ~call.input.api

\* C12: a network-level failure met by login, get_user_details or
\* get_calendar_events of the HTTP client, the follow-up GET for the session
\* identifiers included, reaches the caller as CompassClientError.
C12_NetworkFailureIsClientError ==
    HttpNetworkFailure =>
        call.outcome = "raised" /\ call.error = "CompassClientError"

\* C15: no request is sent a second time: a login of the HTTP client sends
\* one GET and, unless that failed, one POST; an authorized fetch sends at
\* most one follow-up GET for the identifiers and at most one API request,
\* exactly one when it returns.
C15_NoRequestIsRetried ==
    /\ HttpLoginCall =>
          call.sent = (IF Failed(call.input.get) THEN 1 ELSE 2)
    /\ AuthorizedFetch =>
          /\ call.input.gets <= 1
          /\ call.input.posts <= 1
          /\ call.outcome = "returned" => call.input.posts = 1

\* C28: the authenticated flag of the HTTP client is false on construction,
\* turns true only in a login() call that returns, and is never turned
\* back to false: not by a later login() that raises, not by close(), not
\* by a fetch.
C28_AuthenticatedFlagOnlyRises ==
    /\ ~http.authenticated
    /\ [][/\ http.authenticated => http'.authenticated
          /\ (~http.authenticated /\ http'.authenticated) =>
                (call'.client = "http" /\ call'.op = "login"
                   /\ call'.outcome = "returned")]_vars

\* a login() of a client that is logged in raised, and the flag is still set
C28_Witness ==
    /\ call.client = "http" /\ call.op = "login"
    /\ call.before /\ call.outcome = "raised"
    /\ http.authenticated

----------------------------------------------------------------------------
(* Properties of the challenge wait (checked under WaitSpec).              *)

\* the budget of a client's wait and the interval between two of its polls
WaitBudget(client) ==
    IF client = "fetcher" THEN FetcherMaxWait ELSE BrowserFunctionTimeout

PollInterval(client) ==
    IF client = "fetcher" THEN FetcherPollInterval ELSE BrowserPollTick

----------------------------------------------------------------------------
(* Properties of the pure functions (checked under FunctionSpec).          *)

\* the positions of a raw list whose item fails validation
InvalidPositions(raw_list) ==
    {i \in 1..Len(raw_list) : ~ValidEvent(raw_list[i])}

\* C16: parse_safe returns (valid, errors) with len(valid) + len(errors) =
\* len(input); the valid items are the models of the valid raw items in the
\* order of the input, and the errors those of the invalid raw items.
C16_ParseSafeSplitsTheList ==
    applied.fn = "parse_safe" =>
        LET raw_list == applied.input.value
            out      == applied.output
            good     == SelectSeq(raw_list, ValidEvent)
            bad      == SelectSeq(raw_list, LAMBDA raw : ~ValidEvent(raw))
        IN  /\ Len(out.valid_items) + Len(out.errors) = Len(raw_list)
            /\ out.valid_items = [i \in 1..Len(good) |-> CompassEvent(good[i])]
            /\ Len(out.errors) = Len(bad)
            /\ \A i \in 1..Len(bad) : out.errors[i].raw_data = bad[i]

\* an invalid item between two valid ones was set aside
C16_Witness ==
    /\ applied.fn = "parse_safe"
    /\ applied.input.value = <<BaseEvent, InvalidEvent, SecondEvent>>
    /\ applied.output.valid_items = <<CompassEvent(BaseEvent), CompassEvent(SecondEvent)>>
    /\ Len(applied.output.errors) = 1

\* C17: strict parse of a list with an invalid item returns nothing and
\* raises the parse error of the lowest-indexed invalid item: the error
\* names that index (counted from zero) and carries that item's raw data and
\* all of its field errors.
C17_StrictParseRaisesForFirstInvalid ==
    applied.fn = "parse" =>
        LET raw_list == applied.input.value
            out      == applied.output
            bad      == InvalidPositions(raw_list)
        IN  IF bad = {}
            THEN out.ok /\ Len(out.value) = Len(raw_list)
            ELSE LET first == CHOOSE i \in bad : \A j \in bad : i <= j
                 IN  /\ ~out.ok
                     /\ out.value = <<>>
                     /\ out.error.index = first - 1
                     /\ out.error.raw_data = raw_list[first]
                     /\ out.error.validation_errors = FieldErrors(raw_list[first])
                     /\ out.error.validation_errors # {}

\* the second of three items is the first invalid one, a different invalid
\* item follows it
C17_Witness ==
    /\ applied.fn = "parse"
    /\ applied.input.value = <<BaseEvent, BadDateEvent, InvalidEvent>>
    /\ ~applied.output.ok
    /\ applied.output.error.index = 1
    /\ applied.output.error.raw_data = BadDateEvent

\* the value a raw item carries under a key; a text key that is missing
\* counts as the empty text
Field(raw, key) ==
    IF Has(raw, key) THEN <<raw[key]>>
    ELSE IF key = "activityId" THEN <<>> ELSE <<"">>

IdentifyingFields(raw) ==
    <<Field(raw, "activityId"), Field(raw, "start"), Field(raw, "guid")>>

\* the raw item carries a natural instance id: the key is there and its
\* value is neither null nor empty
HasInstanceId(raw) ==
    Has(raw, "instanceId") /\ raw.instanceId # NullStr /\ raw.instanceId # ""

\* C18: two raw items without a natural instance id get the same external id
\* exactly when they are equal on activityId, start and guid.
C18_FingerprintIdentifiesTheTriple ==
    (applied.fn = "generate_external_id"
       /\ ~HasInstanceId(applied.input.value[1])
       /\ ~HasInstanceId(applied.input.value[2])) =>
        LET a == applied.input.value[1]
            b == applied.input.value[2]
        IN  (IdentifyingFields(a) = IdentifyingFields(b))
               <=> (applied.output[1] = applied.output[2])

C20_LocationFlatThenFirstEntryThenNull ==
    applied.fn = "compass_event_to_event" =>
        LET raw  == applied.input.value
            flat == IF Has(raw, "location") THEN raw.location ELSE NullStr
            list == IF Has(raw, "locations") THEN raw.locations ELSE <<>>
        IN  applied.output.location =
               (IF flat # NullStr /\ flat # "" THEN flat
                ELSE IF Len(list) > 0 THEN list[1]
                ELSE NullStr)

\* C21: running status 0, 1, 2 gives the canonical status Scheduled,
\* Cancelled, Postponed; every other integer code gives null, and the
\* mapping raises for no code.
C21_StatusCodesMapToCanonical ==
    applied.fn = "compass_event_to_event" =>
        LET code == applied.input.value.runningStatus
        IN  applied.output.status =
               (CASE code = 0 -> "Scheduled"
                  [] code = 1 -> "Cancelled"
                  [] code = 2 -> "Postponed"
                  [] OTHER    -> NullStr)

\* the array an answer of the upstream carries: inside the "d" envelope, or
\* the answer itself when it is a bare array
CarriedArray(body) ==
    IF IsDict(body) /\ "d" \in body.keys THEN body.inner ELSE body

\* C23: a calendar fetch returns every event of the array the upstream
\* answered with, whatever the limit: a result longer than limit reaches the
\* caller whole.
C23_NoClientTruncatesToLimit ==
    (applied.fn = "get_calendar_events"
       /\ IsList(CarriedArray(applied.input.value.body))
       /\ ~applied.output.raised) =>
          applied.output.value = CarriedArray(applied.input.value.body)

\* the envelope is there and its payload is absent: {"d": null}
PayloadAbsent(body) ==
    IsDict(body) /\ "d" \in body.keys /\ body.inner = JNull

\* C24: a calendar fetch returns the array inside the "d" envelope, or the
\* bare array of an answer without envelope (for a limit the array does not
\* exceed), and returns [] for an envelope whose payload is absent; a user
\* details fetch returns {} for an envelope whose payload is absent; no
\* error is raised in these cases, whichever client made the call.
C24_EnvelopeUnwrappedAbsentPayloadEmpty ==
    LET body  == applied.input.value.body
        limit == applied.input.value.limit
    IN  /\ (applied.fn = "get_calendar_events"
              /\ IsList(CarriedArray(body))
              /\ Len(CarriedArray(body).items) <= limit) =>
                 applied.output = Return(CarriedArray(body))
        /\ (applied.fn = "get_calendar_events" /\ PayloadAbsent(body)) =>
                 applied.output = Return(JList(<<>>))
        /\ (applied.fn = "get_user_details" /\ PayloadAbsent(body)) =>
                 applied.output = Return(JObject({}))

\* C25: create_client takes the mode from the argument when one is given,
\* else from COMPASS_MODE when it is set, else "real"; an empty mode means
\* "real"; without regard to case, "mock" gives the mock client, "real" the
\* real client, and any other mode raises ValueError and gives no client.
\* (A mode with blanks around it is not judged.)
C25_ModeFromArgumentThenEnvironment ==
    applied.fn = "create_client" =>
        LET mode   == applied.input.value.mode
            env    == applied.input.value.env
            chosen == IF mode # {} THEN TextOf(mode)
                      ELSE IF env # {} THEN TextOf(env) ELSE "real"
            wanted == IF chosen = "" THEN "real" ELSE LowerText(chosen)
        IN  StripText(chosen) = chosen =>
               applied.output =
                  (CASE wanted = "mock" ->
                          [raised |-> FALSE, error |-> "",
                           client |-> "CompassMockClient"]
                     [] wanted = "real" ->
                          [raised |-> FALSE, error |-> "",
                           client |-> "CompassClient"]
                     [] OTHER ->
                          [raised |-> TRUE, error |-> "ValueError",
                           client |-> "none"])

\* C26: the external id of a raw item that carries a natural instance id is
\* that instance id, whatever its activityId, start and guid are, so two
\* items with the same instance id get the same external id; the hashed
\* fingerprint is the external id only of an item without instance id.
C26_InstanceIdIsTheExternalId ==
    applied.fn = "generate_external_id" =>
        LET a == applied.input.value[1]
            b == applied.input.value[2]
        IN  /\ \A i \in {1, 2} :
                  LET raw == applied.input.value[i]
                      out == applied.output[i]
                  IN  /\ HasInstanceId(raw) =>
                            out = [natural |-> raw.instanceId, digest |-> <<>>]
                      /\ out.digest # <<>> => ~HasInstanceId(raw)
            /\ (HasInstanceId(a) /\ HasInstanceId(b)
                  /\ a.instanceId = b.instanceId) =>
                     applied.output[1] = applied.output[2]

\* two items with the same instance id that differ in activityId, start
\* and guid got that instance id as their external id
C26_Witness ==
    /\ applied.fn = "generate_external_id"
    /\ applied.input.value[1].instanceId = "inst-1"
    /\ applied.input.value[2].instanceId = "inst-1"
    /\ applied.input.value[1].activityId # applied.input.value[2].activityId
    /\ applied.input.value[1].start # applied.input.value[2].start
    /\ applied.input.value[1].guid # applied.input.value[2].guid
    /\ applied.output[1].natural = "inst-1"
    /\ applied.output[2].natural = "inst-1"

\* C30: once a run of the migration has returned success, api_payloads
\* holds one row for each (adapter_id, method_name, external_id): every row
\* has its external id, no two rows share a key, and each key of the table
\* the migration started from is held by a row none of that key was created
\* after; a run after a successful run changes nothing and returns success.
C30_MigrationIdempotentAndUnique ==
    (applied.fn = "migrate" /\ applied.output.returned) =>
        LET rows   == applied.output.db.rows
            before == Populated({r \in applied.input.value.rows :
                                   IsObject(r.payload)})
        IN  /\ \A r \in rows : r.external_id # NoExternalId
            /\ \A q, r \in rows : PayloadKey(q) = PayloadKey(r) => q = r
            /\ \A q \in before :
                  \E r \in rows : /\ PayloadKey(r) = PayloadKey(q)
                                  /\ q.created_at <= r.created_at
            /\ applied.output.succeeded =>
                  applied.output.db = applied.output.before

====
